---------------------------- MODULE Spec2Model ----------------------------
(***************************************************************************)
(* MailDev message ingestion and store pipeline.                           *)
(*                                                                         *)
(* The repository holds two variants of the store: lib/store.js (the one   *)
(* lib/mailserver.js requires) and a second draft of the same file         *)
(* (unnamed/part_002).  The variable impl says which of the two is         *)
(* running; every handler below branches on it exactly where the two       *)
(* files differ.                                                           *)
(*                                                                         *)
(* Node runs every event handler to completion, so each handler is one     *)
(* atomic action.  An exception that escapes a handler invoked from the    *)
(* event loop (a stream or fs callback) is an uncaught exception and       *)
(* terminates the process: crashed.                                        *)
(***************************************************************************)
EXTENDS Integers, Sequences, FiniteSets, TLC

(***************************************************************************)
(* Bounds of the model.                                                    *)
(***************************************************************************)
MaxMsgs == 2        \* ingestions started over a run
MaxParts == 1       \* attachment parts in one message
MaxBytes == 2       \* bytes delivered by one inbound stream
MaxDeleteAll == 1   \* calls of deleteAllEmail over a run

Handles == 1..MaxMsgs
Impls == {"store_js", "part_002"}

VARIABLES
    impl,        \* which variant of the store is loaded
    crashed,     \* an uncaught exception has terminated the process
    messages,    \* Store.messages: sequence of references to message objects
    message,     \* the message object of each ingestion (a JS object: key -> value)
    inStream,    \* the inbound stream of each ingestion: state, bytes delivered
    size,        \* parseMessage's closure variable size
    parts,       \* number of attachment parts the inbound message holds
    parser,      \* the MailParser of each ingestion
    rawSink,     \* the write stream outStreams.emlStream() opened
    attSinks,    \* the attachment write streams opened, in order
    released,    \* calls of data.release() per ingestion
    disk,        \* paths that exist under mailDir
    cbLog,       \* per ingestion: the (err, message) pairs its completion callback got
    cbOrder,     \* ingestions in the order their completion callbacks fired
    callOrder,   \* ingestions in the order handleNewMessage was called
    newLog,      \* 'new' events emitted by the facade
    deleteLog,   \* 'delete' events emitted by the facade
    smtpReply,   \* per ingestion: what the SMTP acceptor's callback got
    sweeps,      \* fs.readdir callbacks of deleteAll still outstanding
    sweep,       \* how the last readdir callback of deleteAll ended
    deleteAlls,  \* calls of deleteAllEmail so far
    reply,       \* what the last facade call handed to done / threw
    readClean    \* markAllEmailRead ran and no record was put since

vars == <<impl, crashed, messages, message, inStream, size, parts, parser,
          rawSink, attSinks, released, disk, cbLog, cbOrder, callOrder,
          newLog, deleteLog, smtpReply, sweeps, sweep, deleteAlls, reply,
          readClean>>

doneVars == <<messages, cbLog, cbOrder, newLog, smtpReply, readClean>>
adminVars == <<deleteLog, sweeps, sweep, deleteAlls, reply>>

(***************************************************************************)
(* JavaScript objects and small helpers.                                   *)
(***************************************************************************)
Range(s) == {s[i] : i \in 1..Len(s)}

\* obj[key] of a JS object: undefined (here: absent) when the key is missing.
Has(obj, key) == key \in DOMAIN obj

\* obj[key] = value
Put(obj, key, value) == [k \in (DOMAIN obj) \cup {key} |->
                            IF k = key THEN value ELSE obj[k]]

\* A path is the sequence of its segments.
mailDir == <<"mailDir">>

\* path.join(dir, name)
join(dir, name) == Append(dir, name)

\* fs.readdir(dir): the names of the entries directly under dir.
readdir(entries, dir) ==
    {p[Len(p)] : p \in {q \in entries : /\ Len(q) = Len(dir) + 1
                                        /\ SubSeq(q, 1, Len(dir)) = dir}}

\* utils.makeId(): one fresh identifier per inbound message.
makeId(h) == "id" \o ToString(h)

\* utils.formatBytes(size)
formatBytes(n) == ToString(n) \o " bytes"

\* session.envelope of the h-th delivery, as handleDataStream copies it.
envelope(h) ==
    [from          |-> <<"mailFrom", h>>,
     to            |-> <<"rcptTo", h>>,
     host          |-> <<"host", h>>,
     remoteAddress |-> <<"remoteAddress", h>>]


(***************************************************************************)
(* Output streams (Store.emlPath, Store.emlWriteStream, outStreams).       *)
(***************************************************************************)
\* Store.emlPath(id); id + '.eml' of an undefined id is 'undefined.eml'.
emlPath(id) == join(mailDir, id \o ".eml")

\* Store.attachmentDir(id) / path.join(mailDir, id)
attachmentDir(id) == join(mailDir, id)

\* fs.createWriteStream(path): the WriteStream object it returns.
createWriteStream(path) ==
    [path |-> path, bytesWritten |-> 0, ended |-> FALSE, failed |-> FALSE]

\* outStreams.emlStream(): store.js binds emlWriteStream and calls it with no
\* argument (id is undefined); part_002 closes over the id.
emlStream(i, id) ==
    IF i = "store_js" THEN createWriteStream(emlPath("undefined"))
                      ELSE createWriteStream(emlPath(id))

\* const { source, emlStream } = outStreams.emlStream(): the write stream is
\* bound to emlStream only when the returned object has that key.
emlStreamBound(ws) == Has(ws, "emlStream")

\* if (emlStream) message.source = source
withSource(msg, ws) ==
    IF emlStreamBound(ws) /\ Has(ws, "source")
        THEN Put(msg, "source", ws.source)
        ELSE msg

\* stream.write(chunk) through pipe, stream.end()
write(ws, len) == [ws EXCEPT !.bytesWritten = @ + len]
end(ws) == [ws EXCEPT !.ended = TRUE]

(***************************************************************************)
(* Completion path: parseMessage's callback(null, message) runs the        *)
(* closure of Store.handleNewMessage, which runs the closure of            *)
(* handleDataStream.                                                       *)
(***************************************************************************)
\* A store that keeps its index in receipt order instead of appending.
push_receiptOrder(msgs, h) ==
    SelectSeq(msgs, LAMBDA x : x < h) \o <<h>> \o SelectSeq(msgs, LAMBDA x : x > h)

\* A put that stores into the last slot it saw instead of appending.
push_overwriteLast(msgs, h) ==
    IF msgs = <<>> THEN <<h>> ELSE [msgs EXCEPT ![Len(msgs)] = h]

\* this.messages.push(message)
push(msgs, h) == Append(msgs, h)

\* A facade that emits 'new' from the relay branch and again after it.
onNewMessageReceived_twice(log, h, msgs) ==
    LET e == [ref |-> h, id |-> message[h].id, indexed |-> h \in Range(msgs)] IN
    Append(Append(log, e), e)

\* onNewMessageReceived: eventEmitter.emit('new', serialized).  indexed
\* records whether the record was in Store.messages when the event went out.
onNewMessageReceived(log, h, msgs) ==
    Append(log, [ref |-> h, id |-> message[h].id, indexed |-> h \in Range(msgs)])

\* callback(null, message) as parseMessage invokes it.
callback(h) ==
    LET pushed == push(messages, h) IN
    /\ messages' = pushed
    /\ newLog' = onNewMessageReceived(newLog, h, pushed)
    /\ smtpReply' = [smtpReply EXCEPT ![h] =
                        Append(@, "Message queued as " \o message[h].id)]
    /\ cbLog' = [cbLog EXCEPT ![h] = Append(@, [err |-> FALSE, message |-> TRUE])]
    /\ cbOrder' = Append(cbOrder, h)
    /\ readClean' = FALSE

\* A parseMessage whose inStream 'end' handler always invokes the callback,
\* also where the parseStream 'end' handler does.
streamEndCompletes_always(i) == TRUE

\* The handler of inStream 'end' invokes the callback (store.js:93); in
\* part_002 it does not (part_002:112-119).
streamEndCompletes(i) == i = "store_js"

\* The handler of parseStream 'end' invokes the callback (part_002:97-99);
\* store.js registers no such handler.
parserEndCompletes(i) == i = "part_002"

(***************************************************************************)
(* Ingestion.                                                              *)
(***************************************************************************)
\* Store.handleNewMessage(id, envelope, inStream, callback) -> parseMessage,
\* up to the registration of the stream handlers.  h: the message object the
\* call creates; n: attachment parts in the message.
handleNewMessage(h, id, n) ==
    /\ ~crashed
    /\ h = Len(callOrder) + 1
    /\ h \in Handles
    /\ LET ws == emlStream(impl, id)
           msg == envelope(h) @@ [id |-> id, attachments |-> <<>>]
       IN /\ message' = [message EXCEPT ![h] = withSource(msg, ws)]
          /\ rawSink' = [rawSink EXCEPT ![h] = ws]
          /\ disk' = disk \cup {ws.path}
    /\ inStream' = [inStream EXCEPT ![h] = [state |-> "flowing", bytes |-> 0]]
    /\ parser' = [parser EXCEPT ![h] =
                    [pc |-> "headers", emitted |-> 0, held |-> FALSE, inputEnded |-> FALSE]]
    /\ parts' = [parts EXCEPT ![h] = n]
    /\ callOrder' = Append(callOrder, h)
    /\ UNCHANGED <<impl, crashed, size, attSinks, released>>
    /\ UNCHANGED doneVars
    /\ UNCHANGED adminVars

\* handleDataStream(stream, session, callback): the id is utils.makeId().
handleDataStream(h, n) == handleNewMessage(h, makeId(h), n)

\* inStream 'data': the chunk goes to every piped destination and is counted.
InStreamData(h, len) ==
    /\ ~crashed
    /\ inStream[h].state = "flowing"
    /\ inStream[h].bytes + len <= MaxBytes
    /\ inStream' = [inStream EXCEPT ![h].bytes = @ + len]
    /\ rawSink' = [rawSink EXCEPT ![h] =
                     IF emlStreamBound(@) THEN write(@, len) ELSE @]
    /\ size' = [size EXCEPT ![h] = @ + len]
    /\ UNCHANGED <<impl, crashed, message, parts, parser, attSinks, released,
                   callOrder, disk>>
    /\ UNCHANGED doneVars
    /\ UNCHANGED adminVars

\* inStream 'end': pipe ends its destinations, then the handler of
\* parseMessage runs.  A stream that carried n attachment parts delivered at
\* least a byte of each.
InStreamEnd(h) ==
    /\ ~crashed
    /\ inStream[h].state = "flowing"
    /\ inStream[h].bytes >= parts[h]
    /\ inStream' = [inStream EXCEPT ![h].state = "ended"]
    /\ parser' = [parser EXCEPT ![h].inputEnded = TRUE]
    /\ rawSink' = [rawSink EXCEPT ![h] = IF emlStreamBound(@) THEN end(@) ELSE @]
    /\ message' = [message EXCEPT ![h] =
                     Put(Put(@, "size", size[h]), "sizeHuman", formatBytes(size[h]))]
    /\ IF streamEndCompletes(impl)
          THEN callback(h)
          ELSE UNCHANGED doneVars
    /\ UNCHANGED <<impl, crashed, size, parts, attSinks, released, callOrder, disk>>
    /\ UNCHANGED adminVars

\* inStream 'error': parseMessage registers no 'error' listener on inStream,
\* so the emit throws and nothing of the ingestion runs again.
InStreamError(h) ==
    /\ ~crashed
    /\ inStream[h].state = "flowing"
    /\ inStream' = [inStream EXCEPT ![h].state = "errored"]
    /\ crashed' = TRUE
    /\ UNCHANGED <<impl, message, size, parts, parser, rawSink, attSinks,
                   released, callOrder, disk>>
    /\ UNCHANGED doneVars
    /\ UNCHANGED adminVars

\* The connection drops before the stream ends: the stream is closed without
\* 'end' or 'error', and parseMessage listens for 'data' and 'end' only
\* (pipe does not end its destinations on a premature close), so no handler
\* of the ingestion runs.
InStreamAbort(h) ==
    /\ ~crashed
    /\ inStream[h].state = "flowing"
    /\ inStream' = [inStream EXCEPT ![h].state = "aborted"]
    /\ UNCHANGED <<impl, crashed, message, size, parts, parser, rawSink,
                   attSinks, released, callOrder, disk>>
    /\ UNCHANGED doneVars
    /\ UNCHANGED adminVars

(***************************************************************************)
(* The MIME parser's events.  MailParser emits 'headers' once, then one    *)
(* 'data' event per attachment part (it holds back every later event until *)
(* data.release() is called), then the text 'data' event and 'end' once    *)
(* its input has ended.                                                    *)
(***************************************************************************)
\* stripTags(txt, ['script']) on an html body given as its sequence of tags.
stripTags(txt) == SelectSeq(txt, LAMBDA t : t # "script")

\* const transform = is_transform ? defaultValue : identity; the one function
\* the code passes is txt => stripTags(txt, ['script']).
transformed(def, value) ==
    IF def.kind = "transform" THEN stripTags(value) ELSE value

\* copy(src, srcKey, dst, dstKey, defaultValue).  A source is a JS value:
\* the entries of a Map (isMap) and its own properties (props).  def is the
\* fifth argument: none (undefined), a value, or a transform function.
copy(i, src, srcKey, dst, dstKey, def) ==
    IF i = "store_js"
    THEN IF Has(src.props, srcKey)
            THEN Put(dst, dstKey, src.props[srcKey])
         ELSE IF def.kind = "value"
            THEN Put(dst, dstKey, def.value)
         ELSE dst
    ELSE IF src.isMap /\ Has(src.map, srcKey)
            THEN Put(dst, dstKey, transformed(def, src.map[srcKey]))
         ELSE IF Has(src.props, srcKey)
            THEN Put(dst, dstKey, transformed(def, src.props[srcKey]))
         ELSE IF def.kind = "value"
            THEN Put(dst, dstKey, def.value)
         ELSE dst

none == [kind |-> "none"]

\* The rows of the 'headers' handler: <<source header, target field>>.
headerRows ==
    << <<"from", "from">>, <<"to", "to">>, <<"cc", "cc">>, <<"bcc", "bcc">>,
       <<"sender", "sender">>, <<"reply-to", "replyTo">>,
       <<"delivered-to", "deliveredTo">>, <<"return-path", "returnPath">>,
       <<"priority", "priority">>, <<"subject", "subject">>,
       <<"content-type", "contentType">>,
       <<"content-disposition", "contentDisposition">>,
       <<"dkim-signature", "dkimSignature">>, <<"date", "time">> >>

\* The headers object MailParser emits for ingestion h: a Map holding the
\* headers present, with no own property per header.
headersOf(h, present) ==
    [isMap |-> TRUE,
     map   |-> [k \in present |-> <<k, h>>],
     props |-> <<>>]

\* The fifth argument of each row: headers['sender'] for 'from' (a property
\* read on the headers object), new Date() for 'date', nothing otherwise.
headerDefault(h, hdrs, srcKey) ==
    IF srcKey = "from"
        THEN IF Has(hdrs.props, "sender")
                THEN [kind |-> "value", value |-> hdrs.props["sender"]]
                ELSE none
    ELSE IF srcKey = "date"
        THEN [kind |-> "value", value |-> <<"new Date()", h>>]
    ELSE none

RECURSIVE copyHeaders(_, _, _, _, _)
copyHeaders(i, h, hdrs, msg, row) ==
    IF row > Len(headerRows) THEN msg
    ELSE copyHeaders(i, h, hdrs,
                     copy(i, hdrs, headerRows[row][1], msg, headerRows[row][2],
                          headerDefault(h, hdrs, headerRows[row][1])),
                     row + 1)

\* Header sets the model feeds the parser.
HeaderSets == {{"from", "subject", "date"}, {"sender"}}

parserHasInput(h) == inStream[h].bytes > 0 \/ parser[h].inputEnded

\* parseStream 'headers'
ParserHeaders(h, present) ==
    /\ ~crashed
    /\ parser[h].pc = "headers"
    /\ parserHasInput(h)
    /\ parser' = [parser EXCEPT ![h].pc = "body"]
    /\ message' = [message EXCEPT ![h] =
                     copyHeaders(impl, h, headersOf(h, present), @, 1)]
    /\ UNCHANGED <<impl, crashed, inStream, size, parts, rawSink, attSinks,
                   released, callOrder, disk>>
    /\ UNCHANGED doneVars
    /\ UNCHANGED adminVars

\* The k-th attachment node MailParser emits for ingestion h.
attachmentData(h, k) ==
    [type               |-> "attachment",
     filename           |-> "file " \o ToString(k),
     contentType        |-> "image/png",
     contentDisposition |-> "inline",
     checksum           |-> <<"checksum", h, k>>,
     size               |-> k,
     headers            |-> <<"part-headers", h, k>>,
     cid                |-> "cid" \o ToString(k),
     related            |-> TRUE]

\* const attachment = {...}: part_002 adds generatedFileName.
attachmentOf(i, data) ==
    LET a == [filename           |-> data.filename,
              contentType        |-> data.contentType,
              contentDisposition |-> data.contentDisposition,
              checksum           |-> data.checksum,
              size               |-> data.size,
              headers            |-> data.headers,
              contentId          |-> data.cid,
              related            |-> data.related]
    IN IF i = "part_002" THEN Put(a, "generatedFileName", data.filename) ELSE a

\* outStreams has the keys emlStream and attachmentStream in both files;
\* store.js calls outStreams.attachmentWriteStream, part_002 calls
\* outStreams.attachmentStream.
outStreamsKeys == {"emlStream", "attachmentStream"}
attachmentSinkKey(i) ==
    IF i = "store_js" THEN "attachmentWriteStream" ELSE "attachmentStream"

\* outStreams.attachmentStream(attachment) of part_002: { source, stream }
attachmentStream(id, attachment) ==
    LET dir == join(mailDir, id)
        source == join(dir, attachment.generatedFileName)
    IN [dir |-> dir, source |-> source, stream |-> createWriteStream(source)]

\* parseStream 'data' with data.type === 'attachment' (streamAttachments is
\* true); the parser emits the k-th part once its bytes have arrived.
\* Calling a key outStreams does not have throws a TypeError out of the
\* handler, and so does the handler itself when the factory hands back no
\* stream (if (!stream) throw new Error(...)).
ParserAttachment(h) ==
    /\ ~crashed
    /\ parser[h].pc = "body"
    /\ inStream[h].bytes > parser[h].emitted
    /\ ~parser[h].held
    /\ parser[h].emitted < parts[h]
    /\ LET k == parser[h].emitted + 1
           attachment == attachmentOf(impl, attachmentData(h, k))
       IN IF /\ attachmentSinkKey(impl) \in outStreamsKeys
             /\ Has(attachmentStream(message[h].id, attachment), "stream")
          THEN LET out == attachmentStream(message[h].id, attachment) IN
               /\ message' = [message EXCEPT ![h].attachments =
                                Append(@, Put(attachment, "source", out.source))]
               /\ attSinks' = [attSinks EXCEPT ![h] = Append(@, out.stream)]
               /\ disk' = disk \cup {out.dir, out.source}
               /\ parser' = [parser EXCEPT ![h].emitted = k, ![h].held = TRUE]
               /\ UNCHANGED crashed
          ELSE /\ message' = [message EXCEPT ![h].attachments =
                                Append(@, attachment)]
               /\ crashed' = TRUE
               /\ parser' = [parser EXCEPT ![h].emitted = k]
               /\ UNCHANGED <<attSinks, disk>>
    /\ UNCHANGED <<impl, inStream, size, parts, rawSink, released, callOrder>>
    /\ UNCHANGED doneVars
    /\ UNCHANGED adminVars

\* A handler of data.content 'end' that ends the stream and forgets
\* data.release(): the parser keeps holding back what follows.
AttachmentContentEnd_noRelease(h) ==
    /\ ~crashed
    /\ parser[h].held
    /\ ~attSinks[h][Len(attSinks[h])].ended
    /\ attSinks' = [attSinks EXCEPT ![h][Len(attSinks[h])] = end(@)]
    /\ UNCHANGED <<impl, crashed, message, inStream, size, parts, parser, rawSink,
                   released, callOrder, disk>>
    /\ UNCHANGED doneVars
    /\ UNCHANGED adminVars

\* data.content 'end': stream.end(); data.release()
AttachmentContentEnd(h) ==
    /\ ~crashed
    /\ parser[h].held
    /\ attSinks' = [attSinks EXCEPT ![h][Len(attSinks[h])] = end(@)]
    /\ released' = [released EXCEPT ![h] = @ + 1]
    /\ parser' = [parser EXCEPT ![h].held = FALSE]
    /\ UNCHANGED <<impl, crashed, message, inStream, size, parts, rawSink,
                   callOrder, disk>>
    /\ UNCHANGED doneVars
    /\ UNCHANGED adminVars

\* The attachment write stream emits 'error' (the file cannot be opened or
\* written): neither parseMessage nor the store listens for it, so the emit
\* throws.
AttachmentSinkError(h) ==
    /\ ~crashed
    /\ parser[h].held
    /\ attSinks' = [attSinks EXCEPT ![h][Len(attSinks[h])].failed = TRUE]
    /\ crashed' = TRUE
    /\ UNCHANGED <<impl, message, inStream, size, parts, parser, rawSink,
                   released, callOrder, disk>>
    /\ UNCHANGED doneVars
    /\ UNCHANGED adminVars

\* The text node MailParser emits for ingestion h.
textData(h) ==
    [type       |-> "text",
     text       |-> <<"Hello", h>>,
     html       |-> <<"p", "script", "src=\"cid:cid1\"">>,
     textAsHtml |-> <<"<p>Hello</p>", h>>]

\* parseStream 'data' with data.type === 'text'.  store.js copies from
\* data.text (a string, which has none of the three properties); part_002
\* copies from data and strips script tags from html.
ParserText(h) ==
    /\ ~crashed
    /\ parser[h].pc = "body"
    /\ parser[h].inputEnded
    /\ ~parser[h].held
    /\ parser[h].emitted = parts[h]
    /\ parser' = [parser EXCEPT ![h].pc = "end"]
    /\ LET data == textData(h)
           src == IF impl = "store_js"
                    THEN [isMap |-> FALSE, map |-> <<>>, props |-> <<>>]
                    ELSE [isMap |-> FALSE, map |-> <<>>,
                          props |-> [k \in {"text", "html", "textAsHtml"} |-> data[k]]]
           m1 == copy(impl, src, "text", message[h], "text", none)
           m2 == copy(impl, src, "html", m1, "html",
                      IF impl = "part_002" THEN [kind |-> "transform"] ELSE none)
           m3 == copy(impl, src, "textAsHtml", m2, "textAsHtml", none)
       IN message' = [message EXCEPT ![h] = m3]
    /\ UNCHANGED <<impl, crashed, inStream, size, parts, rawSink, attSinks,
                   released, callOrder, disk>>
    /\ UNCHANGED doneVars
    /\ UNCHANGED adminVars

\* parseStream 'end'
ParserEnd(h) ==
    /\ ~crashed
    /\ parser[h].pc = "end"
    /\ parser' = [parser EXCEPT ![h].pc = "done"]
    /\ IF parserEndCompletes(impl)
          THEN callback(h)
          ELSE UNCHANGED doneVars
    /\ UNCHANGED <<impl, crashed, message, inStream, size, parts, rawSink,
                   attSinks, released, callOrder, disk>>
    /\ UNCHANGED adminVars


(***************************************************************************)
(* Store operations and their facade entries.                              *)
(***************************************************************************)
\* An emailById that tests only that the filter returned an array.
emailById_noLengthCheck(msgs, objs, id) ==
    LET email == SelectSeq(msgs, LAMBDA h : objs[h].id = id) IN
    [err |-> <<>>, email |-> IF email = <<>> THEN <<>> ELSE <<email[1]>>]

\* Store.emailById(id, callback): the arguments its callback gets.
emailById(msgs, objs, id) ==
    LET email == SelectSeq(msgs, LAMBDA h : objs[h].id = id) IN
    IF Len(email) = 1
        THEN [err |-> <<>>, email |-> <<email[1]>>]
        ELSE [err |-> <<"Email was not found">>, email |-> <<>>]

\* mailServer.getEmail(id, done)
getEmail(id) ==
    /\ ~crashed
    /\ LET r == emailById(messages, message, id) IN
       reply' = [op |-> "getEmail", id |-> id, err |-> r.err, result |-> r.email]
    /\ UNCHANGED <<impl, crashed, messages, message, inStream, size, parts,
                   parser, rawSink, attSinks, released, disk, cbLog, cbOrder,
                   callOrder, newLog, deleteLog, smtpReply, sweeps, sweep,
                   deleteAlls, readClean>>

\* Store.emailAttachmentStreamById(id, filename, callback): whether it threw
\* and the arguments its callback got.  store.js reads contentType and source
\* off the array the filter returns (both undefined) and hands the undefined
\* path to fs.createReadStream, which throws; part_002 reads them off match[0].
emailAttachmentStreamById(i, msgs, objs, id, filename) ==
    LET r == emailById(msgs, objs, id) IN
    IF r.err # <<>>
        THEN [threw |-> <<>>, err |-> r.err, contentType |-> <<>>, source |-> <<>>]
    ELSE LET email == objs[r.email[1]]
             match == IF Has(email, "attachments")
                        THEN SelectSeq(email.attachments,
                                       LAMBDA a : /\ Has(a, "generatedFileName")
                                                  /\ a.generatedFileName = filename)
                        ELSE <<>>
         IN IF ~Has(email, "attachments") \/ email.attachments = <<>>
               THEN [threw |-> <<>>, err |-> <<"Email has no attachments">>,
                     contentType |-> <<>>, source |-> <<>>]
            ELSE IF match = <<>>
               THEN [threw |-> <<>>, err |-> <<"Attachment not found">>,
                     contentType |-> <<>>, source |-> <<>>]
            ELSE IF i = "store_js" \/ ~Has(match[1], "source")
               THEN [threw |-> <<"TypeError: the path argument must be of type string">>,
                     err |-> <<>>, contentType |-> <<>>, source |-> <<>>]
            ELSE [threw |-> <<>>, err |-> <<>>,
                  contentType |-> <<match[1].contentType>>,
                  source |-> <<match[1].source>>]

\* encodeURIComponent(filename) over the characters file names of the model
\* are made of: letters, digits and '.' stay, a blank and '/' are escaped.
encodeChar(c) == IF c = " " THEN "%20" ELSE IF c = "/" THEN "%2F" ELSE c

RECURSIVE encodeURIComponent(_)
encodeURIComponent(str) ==
    IF str = "" THEN ""
    ELSE encodeChar(SubSeq(str, 1, 1)) \o encodeURIComponent(SubSeq(str, 2, Len(str)))

\* getFileUrl(id, baseUrl, filename); an undefined filename is encoded as
\* the string 'undefined'.
getFileUrl(id, baseUrl, filename) ==
    baseUrl \o "/email/" \o id \o "/attachment/"
        \o encodeURIComponent(IF filename = <<>> THEN "undefined" ELSE filename[1])

\* html.replace(regex, replacement) for one embedded attachment: every
\* src="cid:<contentId>" (either quote) becomes src="<file url>".
replaceCid(html, id, baseUrl, attachment) ==
    LET url == getFileUrl(id, baseUrl,
                          IF Has(attachment, "generatedFileName")
                              THEN <<attachment.generatedFileName>> ELSE <<>>)
    IN [t \in 1..Len(html) |->
            IF html[t] \in {"src=\"cid:" \o attachment.contentId \o "\"",
                            "src='cid:" \o attachment.contentId \o "'"}
                THEN "src=\"" \o url \o "\""
                ELSE html[t]]

RECURSIVE replaceCids(_, _, _, _, _)
replaceCids(html, id, baseUrl, embedded, k) ==
    IF k > Len(embedded) THEN html
    ELSE replaceCids(replaceCid(html, id, baseUrl, embedded[k]), id, baseUrl,
                     embedded, k + 1)

\* mailServer.getEmailHTML(id, baseUrl, done): whether it threw and what done
\* got.  html.replace on a record with no html throws a TypeError.
getEmailHTML(msgs, objs, id, baseUrl) ==
    LET r == emailById(msgs, objs, id) IN
    IF r.err # <<>> THEN [threw |-> <<>>, err |-> r.err, html |-> <<>>]
    ELSE LET email == objs[r.email[1]]
             html == IF Has(email, "html") THEN <<email.html>> ELSE <<>>
             embedded == IF Has(email, "attachments")
                            THEN SelectSeq(email.attachments,
                                           LAMBDA a : Has(a, "contentId"))
                            ELSE <<>>
         IN IF embedded = <<>>
               THEN [threw |-> <<>>, err |-> <<>>, html |-> html]
            ELSE IF html = <<>>
               THEN [threw |-> <<"TypeError: cannot read properties of undefined">>,
                     err |-> <<>>, html |-> <<>>]
            ELSE [threw |-> <<>>, err |-> <<>>,
                  html |-> <<replaceCids(html[1], id, baseUrl, embedded, 1)>>]

isRead(obj) == Has(obj, "read") /\ obj.read

\* A markAllEmailRead that counts the unread records without marking them.
RECURSIVE markAllEmailRead_countOnly(_, _, _, _)
markAllEmailRead_countOnly(msgs, objs, i, count) ==
    IF i > Len(msgs) THEN [count |-> count, objs |-> objs]
    ELSE markAllEmailRead_countOnly(msgs, objs, i + 1,
                                    IF isRead(objs[msgs[i]]) THEN count ELSE count + 1)

\* Store.markAllEmailRead: the loop over this.messages from position i on.
RECURSIVE markAllEmailRead(_, _, _, _)
markAllEmailRead(msgs, objs, i, count) ==
    IF i > Len(msgs) THEN [count |-> count, objs |-> objs]
    ELSE IF ~isRead(objs[msgs[i]])
        THEN markAllEmailRead(msgs, [objs EXCEPT ![msgs[i]] = Put(@, "read", TRUE)],
                              i + 1, count + 1)
        ELSE markAllEmailRead(msgs, objs, i + 1, count)

\* mailServer.readAllEmail(done)
readAllEmail ==
    /\ ~crashed
    /\ LET r == markAllEmailRead(messages, message, 1, 0) IN
       /\ message' = r.objs
       /\ reply' = [op |-> "readAllEmail", err |-> <<>>, result |-> <<r.count>>]
    /\ readClean' = TRUE
    /\ UNCHANGED <<impl, crashed, messages, inStream, size, parts, parser,
                   rawSink, attSinks, released, disk, cbLog, cbOrder, callOrder,
                   newLog, deleteLog, smtpReply, sweeps, sweep, deleteAlls>>

\* The identifiers in the store's code that no require or declaration
\* binds: evaluating one throws a ReferenceError.
unboundNames == {"rimraf", "errors"}

\* The for loop of Store.deleteById: the 0-based position of the first
\* record whose id is id, or none (index stays undefined).
indexOfId(msgs, objs, id) ==
    LET hits == {i \in 1..Len(msgs) : objs[msgs[i]].id = id} IN
    IF hits = {} THEN <<>>
    ELSE <<(CHOOSE i \in hits : \A j \in hits : i <= j) - 1>>

\* if (!index): true of an undefined index and of index 0.
notIndex(index) == index = <<>> \/ index[1] = 0

\* Store.deleteById(id, callback): whether it threw, the arguments its
\* callback got (none when it was not invoked), and this.messages after.
deleteById(msgs, objs, id) ==
    LET index == indexOfId(msgs, objs, id) IN
    IF notIndex(index)
        THEN [threw |-> <<>>, called |-> <<[err |-> <<"Email not found">>, ok |-> <<>>]>>,
              messages |-> msgs]
    ELSE IF "rimraf" \in unboundNames
        THEN [threw |-> <<"ReferenceError: rimraf is not defined">>, called |-> <<>>,
              messages |-> msgs]
    ELSE IF "errors" \in unboundNames
        THEN [threw |-> <<"ReferenceError: errors is not defined">>, called |-> <<>>,
              messages |-> msgs]
    ELSE [threw |-> <<>>, called |-> <<[err |-> <<>>, ok |-> <<>>]>>,
          messages |-> SubSeq(msgs, 1, index[1]) \o SubSeq(msgs, index[1] + 2, Len(msgs))]

\* mailServer.deleteEmail(id, done)
deleteEmail(id) ==
    /\ ~crashed
    /\ LET r == deleteById(messages, message, id)
           ok == IF r.called = <<>> THEN <<>> ELSE r.called[1].ok
       IN /\ messages' = r.messages
          /\ deleteLog' = IF ok # <<>> THEN Append(deleteLog, ok[1]) ELSE deleteLog
          /\ reply' = [op |-> "deleteEmail", id |-> id, threw |-> r.threw,
                       done |-> IF r.called = <<>> THEN <<>>
                                ELSE IF ok # <<>> THEN <<[err |-> <<>>, result |-> <<TRUE>>]>>
                                ELSE <<[err |-> r.called[1].err, result |-> <<>>]>>]
    /\ UNCHANGED <<impl, crashed, message, inStream, size, parts, parser,
                   rawSink, attSinks, released, disk, cbLog, cbOrder, callOrder,
                   newLog, smtpReply, sweeps, sweep, deleteAlls, readClean>>

\* mailServer.deleteAllEmail(done) -> Store.deleteAll(): the index is
\* emptied at once, the disk sweep starts with an fs.readdir.
deleteAllEmail ==
    /\ ~crashed
    /\ deleteAlls < MaxDeleteAll
    /\ deleteAlls' = deleteAlls + 1
    /\ messages' = SubSeq(messages, Len(messages) + 1, Len(messages))
    /\ sweeps' = sweeps + 1
    /\ deleteLog' = Append(deleteLog, [id |-> "all"])
    /\ reply' = [op |-> "deleteAllEmail", err |-> <<>>, result |-> <<TRUE>>]
    /\ UNCHANGED <<impl, crashed, message, inStream, size, parts, parser,
                   rawSink, attSinks, released, disk, cbLog, cbOrder, callOrder,
                   newLog, smtpReply, sweep, readClean>>

\* The fs.readdir callback of Store.deleteAll: files.forEach calls rimraf,
\* an unbound name, on the first entry.
deleteAllReaddir ==
    /\ ~crashed
    /\ sweeps > 0
    /\ sweeps' = sweeps - 1
    /\ IF readdir(disk, mailDir) # {} /\ "rimraf" \in unboundNames
          THEN /\ sweep' = "threw"
               /\ crashed' = TRUE
               /\ UNCHANGED disk
          ELSE /\ sweep' = "done"
               /\ disk' = {p \in disk : Len(p) <= Len(mailDir)}  \* every entry removed
               /\ UNCHANGED crashed
    /\ UNCHANGED <<impl, messages, message, inStream, size, parts, parser,
                   rawSink, attSinks, released, cbLog, cbOrder, callOrder,
                   newLog, deleteLog, smtpReply, deleteAlls, reply, readClean>>

(***************************************************************************)
(* The specification.                                                      *)
(***************************************************************************)
\* The ids a facade caller may ask for: those makeId hands out over a run
\* (an id not handed out yet is an id the store does not know).
Ids == {makeId(h) : h \in Handles}

Init ==
    /\ impl \in Impls
    /\ crashed = FALSE
    /\ messages = <<>>
    /\ message = [h \in Handles |-> <<>>]
    /\ inStream = [h \in Handles |-> [state |-> "none", bytes |-> 0]]
    /\ size = [h \in Handles |-> 0]
    /\ parts = [h \in Handles |-> 0]
    /\ parser = [h \in Handles |->
                    [pc |-> "idle", emitted |-> 0, held |-> FALSE, inputEnded |-> FALSE]]
    /\ rawSink = [h \in Handles |-> <<>>]
    /\ attSinks = [h \in Handles |-> <<>>]
    /\ released = [h \in Handles |-> 0]
    /\ disk = {mailDir}
    /\ cbLog = [h \in Handles |-> <<>>]
    /\ cbOrder = <<>>
    /\ callOrder = <<>>
    /\ newLog = <<>>
    /\ deleteLog = <<>>
    /\ smtpReply = [h \in Handles |-> <<>>]
    /\ sweeps = 0
    /\ sweep = "none"
    /\ deleteAlls = 0
    /\ reply = [op |-> "none"]
    /\ readClean = FALSE

Next ==
    \/ \E h \in Handles, n \in 0..MaxParts : handleDataStream(h, n)
    \/ \E h \in Handles, len \in 1..MaxBytes : InStreamData(h, len)
    \/ \E h \in Handles : InStreamEnd(h)
    \/ \E h \in Handles : InStreamError(h)
    \/ \E h \in Handles : InStreamAbort(h)
    \/ \E h \in Handles, present \in HeaderSets : ParserHeaders(h, present)
    \/ \E h \in Handles : ParserAttachment(h)
    \/ \E h \in Handles : AttachmentContentEnd(h)
    \/ \E h \in Handles : AttachmentSinkError(h)
    \/ \E h \in Handles : ParserText(h)
    \/ \E h \in Handles : ParserEnd(h)
    \/ \E id \in Ids : getEmail(id)
    \/ readAllEmail
    \/ \E id \in Ids : deleteEmail(id)
    \/ deleteAllEmail
    \/ deleteAllReaddir

Spec == Init /\ [][Next]_vars

\* The Store on its own, as the class the module exports: a client calls
\* handleNewMessage with ids of its own choice and looks records up.
NextStore ==
    \/ \E h \in Handles, id \in Ids, n \in 0..MaxParts : handleNewMessage(h, id, n)
    \/ \E h \in Handles, len \in 1..MaxBytes : InStreamData(h, len)
    \/ \E h \in Handles : InStreamEnd(h)
    \/ \E h \in Handles, present \in HeaderSets : ParserHeaders(h, present)
    \/ \E h \in Handles : ParserAttachment(h)
    \/ \E h \in Handles : AttachmentContentEnd(h)
    \/ \E h \in Handles : ParserText(h)
    \/ \E h \in Handles : ParserEnd(h)
    \/ \E id \in Ids : getEmail(id)

SpecStore == Init /\ [][NextStore]_vars


(***************************************************************************)
(* Properties.                                                             *)
(***************************************************************************)
callbacks(h) == Len(cbLog[h])
closedSinks(h) == {k \in 1..Len(attSinks[h]) : attSinks[h][k].ended}
delivered(h) == inStream[h].state = "ended" /\ parser[h].pc = "done"
idsOf(msgs, objs) == {objs[msgs[i]].id : i \in 1..Len(msgs)}
unreadIn(msgs, objs) == {h \in Range(msgs) : ~isRead(objs[h])}
newEvents(h) == {i \in 1..Len(newLog) : newLog[i].ref = h}

\* C1: the completion callback of an ingestion of a message with N attachment
\* parts has not been invoked unless all N attachment sinks of that message
\* have been opened and closed.
C1_CallbackAfterAllAttachmentSinksClosed ==
    \A h \in Handles :
        callbacks(h) > 0 => Cardinality(closedSinks(h)) = parts[h]

\* C2: every record in the store's index is complete: its inbound stream has
\* ended, size and sizeHuman are set, the raw sink has been closed and the
\* parser has emitted 'end'.
C2_VisibleRecordsComplete ==
    \A h \in Range(messages) :
        /\ inStream[h].state = "ended"
        /\ Has(message[h], "size")
        /\ Has(message[h], "sizeHuman")
        /\ rawSink[h].ended
        /\ parser[h].pc = "done"

C4_SizeEqualsBytesWritten ==
    \A h \in Range(messages) :
        /\ Has(message[h], "source")
        /\ Has(message[h], "size")
        /\ message[h].size = rawSink[h].bytesWritten
        /\ rawSink[h].bytesWritten = inStream[h].bytes

\* C5: deleteEmail/deleteById of an id present in the index (at position 0
\* or any other) calls back with success and removes the record.
C5_DeletePresentSucceeds ==
    [][\A id \in Ids :
         (deleteEmail(id) /\ id \in idsOf(messages, message))
            => /\ reply'.done # <<>>
               /\ reply'.done[1].err = <<>>
               /\ id \notin idsOf(messages', message')]_vars

\* The artifacts of the messages handed to the store so far that still exist
\* under the root directory: <id>.eml and <id>/.
leftovers(entries) ==
    {p \in entries : \E h \in Range(callOrder) :
        p \in {emlPath(makeId(h)), attachmentDir(makeId(h))}}

noneInFlight ==
    \A h \in Handles : inStream[h].state = "none" \/ delivered(h)

\* C6: deleteAll empties the index, and when its disk sweep finishes with no
\* ingestion in flight and nothing stored since, no <id>.eml and no <id>/ of
\* a message is left under the root directory.
C6_DeleteAllLeavesNothing ==
    [][/\ deleteAllEmail => messages' = <<>>
       /\ (deleteAllReaddir /\ noneInFlight /\ messages = <<>>)
            => leftovers(disk') = {}]_vars

\* C7: markAllEmailRead reports the number of records that were unread, leaves
\* every record of the index read, and a second call with no put in between
\* reports 0 and changes no record.
C7_MarkAllReadCountsAndIsIdempotent ==
    [][readAllEmail =>
        /\ reply'.result = <<Cardinality(unreadIn(messages, message))>>
        /\ unreadIn(messages', message') = {}
        /\ \A h \in Handles \ unreadIn(messages, message) : message'[h] = message[h]
        /\ readClean => (reply'.result = <<0>> /\ message' = message)]_vars

\* C7 witness: the last facade call was a markAllEmailRead that found nothing
\* unread in a non-empty index to which nothing was put since: a second call.
C7_Witness ==
    /\ reply.op = "readAllEmail"
    /\ reply.result = <<0>>
    /\ readClean
    /\ messages # <<>>

\* The fields of a record whose value is tagged with the ingestion it came from.
ownFields == {"from", "to", "host", "remoteAddress", "sender", "subject", "time",
              "text", "textAsHtml"}
ownData(h) ==
    /\ message[h].id = makeId(h)
    /\ message[h].size = inStream[h].bytes
    /\ \A f \in ownFields \cap DOMAIN message[h] : message[h][f][2] = h
    /\ \A k \in 1..Len(message[h].attachments) :
          message[h].attachments[k].checksum = <<"checksum", h, k>>

\* C8: the index lists the records in the order their completion callbacks
\* fired; an ingestion whose events have all been delivered is in the index
\* (until a deleteAll); and every field of a record holds data of its own
\* ingestion only.
C8_ConcurrentIngestionsIndependent ==
    /\ messages = SelectSeq(cbOrder, LAMBDA h : h \in Range(messages))
    /\ \A h \in Range(messages) : ownData(h)
    /\ deleteAlls = 0 => \A h \in Handles : delivered(h) => h \in Range(messages)

\* C8 witness: two records in the index, the one received second first.
C8_Witness ==
    /\ Len(messages) = 2
    /\ callOrder[1] = messages[2]
    /\ callOrder[2] = messages[1]
    /\ \A h \in Range(messages) : delivered(h)

C10_StreamErrorReported ==
    \A h \in Handles :
        inStream[h].state = "errored"
            => /\ cbLog[h] = <<[err |-> TRUE, message |-> FALSE]>>
               /\ h \notin Range(messages)

\* The events of ingestion h that can still be delivered.
ingestionStep(h) ==
    \/ InStreamData(h, 1)
    \/ InStreamEnd(h)
    \/ \E present \in HeaderSets : ParserHeaders(h, present)
    \/ ParserAttachment(h)
    \/ AttachmentContentEnd(h)
    \/ ParserText(h)
    \/ ParserEnd(h)

openSinks(h) ==
    (IF rawSink[h] # <<>> /\ ~rawSink[h].ended THEN {rawSink[h].path} ELSE {})
        \cup {attSinks[h][k].path : k \in (1..Len(attSinks[h])) \ closedSinks(h)}

\* C11: when the inbound stream of an ingestion was aborted before its end,
\* then once every event of that ingestion still pending has been delivered
\* every sink opened for it (the raw sink and each attachment sink) is closed;
\* and at no time after the abort is its record in the index or has its
\* completion callback been invoked.
C11_AbortClosesSinksRegistersNothing ==
    \A h \in Handles :
        inStream[h].state = "aborted"
            => /\ h \notin Range(messages)
               /\ cbLog[h] = <<>>
               /\ (~crashed /\ ~ENABLED ingestionStep(h)) => openSinks(h) = {}

\* An attachment-part event of ingestion h got no writable stream from the
\* sink factory.
sinkMissing(h) == parser[h].emitted > Len(attSinks[h])

\* The completion callback of ingestion h was invoked with an error and no
\* message.
failureSignalled(h) ==
    \E i \in 1..Len(cbLog[h]) : cbLog[h][i].err /\ ~cbLog[h][i].message

\* C12: once an attachment-part event of an ingestion in attachment-streaming
\* mode has got no writable stream from the sink factory, the failure has been
\* signalled to the caller of the ingestion and the record of that message is
\* not in the index.
C12_NoSinkIsConfigurationError ==
    \A h \in Handles :
        sinkMissing(h) => failureSignalled(h) /\ h \notin Range(messages)

\* An attachment sink of ingestion h could not be opened or written.
sinkFailed(h) ==
    sinkMissing(h) \/ \E k \in 1..Len(attSinks[h]) : attSinks[h][k].failed

\* C13: once opening or writing an attachment sink of a message has failed,
\* the completion callback of that ingestion has reported an error, and the
\* message is not in the index with that attachment missing or truncated.
C13_AttachmentSinkFailureFailsIngestion ==
    \A h \in Handles :
        sinkFailed(h) => /\ failureSignalled(h)
                         /\ \A i \in 1..Len(cbLog[h]) : ~cbLog[h][i].message
                         /\ h \notin Range(messages)

\* C14: deleteById of an id present in the index removes that record from the
\* index and invokes its callback with a success indication naming the deleted
\* id (next to the disk errors, if removing the raw file or the attachment
\* directory failed); it never throws and never reports 'not found'.
C14_DeleteCommitsDespiteDiskErrors ==
    [][\A id \in Ids :
         (deleteEmail(id) /\ id \in idsOf(messages, message))
            => LET r == deleteById(messages, message, id) IN
               /\ r.threw = <<>>
               /\ r.called # <<>>
               /\ r.called[1].ok # <<>>
               /\ id \notin idsOf(r.messages, message)
               /\ messages' = r.messages]_vars

\* C15: emailById(id) calls back with the record of the index whose id is id
\* when there is one and with the error 'Email was not found' when there is
\* none, and leaves the index and its records as they were.
C15_LookupFindsExactlyThePresent ==
    [][\A id \in Ids :
         getEmail(id)
            => /\ IF id \in idsOf(messages, message)
                     THEN /\ reply'.err = <<>>
                          /\ reply'.result # <<>>
                          /\ reply'.result[1] \in Range(messages)
                          /\ message[reply'.result[1]].id = id
                     ELSE /\ reply'.err = <<"Email was not found">>
                          /\ reply'.result = <<>>
               /\ messages' = messages
               /\ message' = message]_vars

\* C15 witness: after two ingestions and a deleteAll between them, a lookup
\* of the second id found its record and a lookup of the first would not.
C15_Witness ==
    /\ reply.op = "getEmail"
    /\ reply.result # <<>>
    /\ deleteAlls > 0
    /\ Cardinality(idsOf(messages, message)) < Len(cbOrder)

\* C16: no two records of the index share an id, and a step that registers a
\* record registers one whose id was not in the index: a record whose id is
\* already present is turned down (its callback gets an error) and the index
\* stays as it was.
C16_IdsUniqueInIndex ==
    /\ [](\A i, j \in 1..Len(messages) :
            message[messages[i]].id = message[messages[j]].id => i = j)
    /\ [][\A h \in Handles :
            (callbacks(h) = 0 /\ message[h] # <<>>
                /\ message[h].id \in idsOf(messages, message)
                /\ cbLog'[h] # cbLog[h])
               => (messages' = messages /\ cbLog'[h][1].err)]_vars

\* The html of record h as getEmailHTML serves it refers to attachment a by
\* the url of the pair (id, generatedFileName).
servedByPair(h, a) ==
    LET r == getEmailHTML(messages, message, message[h].id, "") IN
    /\ r.threw = <<>>
    /\ r.err = <<>>
    /\ r.html # <<>>
    /\ \A t \in 1..Len(message[h].html) :
          message[h].html[t] = "src=\"cid:" \o a.contentId \o "\""
            => r.html[1][t] = "src=\"/email/" \o message[h].id \o "/attachment/"
                                 \o encodeURIComponent(a.generatedFileName) \o "\""

\* C17: for every record of the index and every attachment a of its list,
\* a.generatedFileName is defined, a.source is root/<id>/<generatedFileName>,
\* emailAttachmentStreamById(id, a.generatedFileName) succeeds with a's content
\* type and a's source, and getEmailHTML replaces a 'cid:' reference to
\* a.contentId by the url of (id, generatedFileName).
C17_AttachmentRoundTrip ==
    \A h \in Range(messages) :
        \A k \in 1..Len(message[h].attachments) :
            LET a == message[h].attachments[k]
                id == message[h].id
            IN /\ Has(a, "generatedFileName")
               /\ Has(a, "source")
               /\ a.source = join(attachmentDir(id), a.generatedFileName)
               /\ emailAttachmentStreamById(impl, messages, message, id,
                                            a.generatedFileName)
                     = [threw |-> <<>>, err |-> <<>>,
                        contentType |-> <<a.contentType>>, source |-> <<a.source>>]
               /\ servedByPair(h, a)

\* C18: the mutations of the index are serialized.  Every step changes the
\* index as one operation applied to the index as it was: a put appends one
\* record, deleteAll empties it, deleteById takes out at most the record with
\* the id it was given, markAllEmailRead leaves it as it is.  No put is lost
\* (a record whose callback got the message is in the index, and leaves it
\* only by a delete of its id or a deleteAll), and no record is in it twice.
C18_IndexMutationsSerialized ==
    /\ [](\A i, j \in 1..Len(messages) : messages[i] = messages[j] => i = j)
    /\ [][\/ messages' = messages
          \/ \E h \in Handles \ Range(messages) :
                /\ messages' = Append(messages, h)
                /\ cbLog'[h] = Append(cbLog[h], [err |-> FALSE, message |-> TRUE])
          \/ deleteAllEmail /\ messages' = <<>>
          \/ \E id \in Ids :
                /\ deleteEmail(id)
                /\ \E h \in Range(messages) :
                      /\ message[h].id = id
                      /\ messages' = SelectSeq(messages, LAMBDA g : g # h)]_vars
    /\ [][\A h \in Handles :
            /\ (cbLog'[h] # cbLog[h] /\ cbLog'[h][Len(cbLog'[h])].message)
                  => h \in Range(messages')
            /\ readAllEmail => messages' = messages]_vars

\* C18 witness: with one ingestion still in flight, a deleteAll, a put, a
\* markAllEmailRead and a deleteById have been applied in turn.
C18_Witness ==
    \E g, h \in Handles :
        /\ inStream[g].state = "flowing"
        /\ deleteAlls > 0
        /\ messages = <<h>>
        /\ isRead(message[h])
        /\ reply.op = "deleteEmail"

\* The header-derived fields other than from and time, with their headers.
plainRows ==
    {r \in Range(headerRows) : r[1] \notin {"from", "date"}}

\* The value MailParser gives header k of ingestion h.
headerValue(h, k) == <<k, h>>

\* C19: after the parser's headers event, from is the from header when
\* present and otherwise the sender header when that is present; time is the
\* date header when present and otherwise the receipt time; any other
\* header-derived field holds its header when the header is present and is
\* otherwise as it was before the event (unset, or the envelope's value).
C19_HeaderCopyPolicy ==
    [][\A h \in Handles, present \in HeaderSets :
         ParserHeaders(h, present)
            => LET old == message[h]
                   new == message'[h]
               IN /\ IF "from" \in present
                        THEN Has(new, "from") /\ new.from = headerValue(h, "from")
                     ELSE IF "sender" \in present
                        THEN Has(new, "from") /\ new.from = headerValue(h, "sender")
                     ELSE (Has(new, "from") <=> Has(old, "from"))
                              /\ (Has(old, "from") => new.from = old.from)
                  /\ Has(new, "time")
                  /\ new.time = IF "date" \in present
                                    THEN headerValue(h, "date")
                                    ELSE <<"new Date()", h>>
                  /\ \A r \in plainRows :
                        IF r[1] \in present
                            THEN Has(new, r[2]) /\ new[r[2]] = headerValue(h, r[1])
                            ELSE /\ Has(new, r[2]) <=> Has(old, r[2])
                                 /\ Has(old, r[2]) => new[r[2]] = old[r[2]]]_vars

artifactsOf(entries, i) ==
    {p \in entries : \/ p = emlPath(i)
                     \/ /\ Len(p) >= Len(attachmentDir(i))
                        /\ SubSeq(p, 1, Len(attachmentDir(i))) = attachmentDir(i)}

\* C21: every record of the index with id i has source = root/<i>.eml and the
\* source of each of its attachments directly under root/<i>/; and a
\* deleteById(i) of a present id removes root/<i>.eml and root/<i>/ from the
\* disk and nothing else.
C21_LayoutSharedByIngestionAndDeletion ==
    /\ [](\A h \in Range(messages) :
            /\ Has(message[h], "source")
            /\ message[h].source = emlPath(message[h].id)
            /\ \A k \in 1..Len(message[h].attachments) :
                  LET a == message[h].attachments[k] IN
                  /\ Has(a, "source")
                  /\ Len(a.source) = Len(attachmentDir(message[h].id)) + 1
                  /\ a.source \in artifactsOf({a.source}, message[h].id))
    /\ [][\A id \in Ids :
            (deleteEmail(id) /\ id \in idsOf(messages, message))
               => disk' = disk \ artifactsOf(disk, id)]_vars

\* C22: a deleteById of an id that is not in the index calls back with the
\* error 'Email not found' and leaves the index as it was; a deleteById of a
\* present id takes that record out of the index and leaves every other
\* record, its read flag and the order of the remaining records as they were.
C22_DeleteByIdFrame ==
    [][\A id \in Ids :
         deleteEmail(id)
            => /\ message' = message
               /\ IF id \in idsOf(messages, message)
                     THEN messages' = SelectSeq(messages, LAMBDA h : message[h].id # id)
                     ELSE /\ messages' = messages
                          /\ reply'.done = <<[err |-> <<"Email not found">>,
                                              result |-> <<>>]>>]_vars

\* C23: in every state, also while a deleteAll sweep or a deleteById runs
\* with another ingestion in flight or before this one completed, every record
\* of the index has its raw file root/<id>.eml on disk and the file of each of
\* its attachments.
C23_IndexedRecordsHaveArtifacts ==
    \A h \in Range(messages) :
        /\ emlPath(message[h].id) \in disk
        /\ \A k \in 1..Len(message[h].attachments) :
              /\ Has(message[h].attachments[k], "source")
              /\ message[h].attachments[k].source \in disk

\* The record with id id was in the index before the step and is not after.
removedById(id) ==
    /\ id \in idsOf(messages, message)
    /\ id \notin idsOf(messages', message')

\* C24: a deleteEmail(id, done) invokes done exactly once; done gets
\* (null, true) and a 'delete' event carrying the id is emitted exactly when
\* the record with that id was removed from the index; done gets an error and
\* no 'delete' event is emitted exactly when the index was left as it was.
C24_FacadeDeleteReportsWhatHappened ==
    [][\A id \in Ids :
         deleteEmail(id)
            => /\ Len(reply'.done) = 1
               /\ reply'.threw = <<>>
               /\ removedById(id)
                     <=> /\ reply'.done[1] = [err |-> <<>>, result |-> <<TRUE>>]
                         /\ Len(deleteLog') = Len(deleteLog) + 1
                         /\ deleteLog'[Len(deleteLog')].id = id
               /\ messages' = messages
                     <=> /\ reply'.done[1].err # <<>>
                         /\ deleteLog' = deleteLog]_vars

\* C25: an ingestion whose inbound stream has ended without error, and of
\* which no event is left to deliver, has had its completion callback invoked
\* with a message, and the SMTP acceptor's callback invoked exactly once, with
\* 'Message queued as <id>'.
C25_EndedIngestionCompletes ==
    \A h \in Handles :
        (inStream[h].state = "ended" /\ ~ENABLED ingestionStep(h))
            => /\ cbLog[h] = <<[err |-> FALSE, message |-> TRUE]>>
               /\ smtpReply[h] = <<"Message queued as " \o message[h].id>>

=============================================================================
